---- MODULE Spec2Model ----
(***************************************************************************)
(* Verification model of the rocket design optimizer package               *)
(* (src/optimizer): the constraint checker, the DOE runner and the         *)
(* simulator's evaluate, the surrogate model's fit, the NSGA-II sign       *)
(* convention and the knee point detection.                                *)
(*                                                                         *)
(* Floating point values are modelled as records: a NaN, a signed          *)
(* infinity, or a finite number held as an integer count of a fixed unit   *)
(* (exact arithmetic; the unit is stated where a set of values is          *)
(* introduced).                                                            *)
(***************************************************************************)
EXTENDS Integers, Sequences, FiniteSets, TLC

VARIABLES
    \* ---- constraint checker harness (simulation.py / doe.py) ----
    chkCons,      \* problem.constraints handed to check_constraints
    chkOutcome,   \* the outcome mapping handed to check_constraints
    chkSingle,    \* the last check_constraint call: constraint, value, result
    chkAll,       \* the last check_constraints result
    \* ---- run_doe over a RocketSimulator (doe.py / simulation.py) ----
    problem,      \* the OptimizationProblem: variables, objectives, constraints
    samples,      \* the sample matrix: a sequence of design vectors
    simulator,    \* RocketSimulator's _instance, _orh, _doc, _sim
    rocket,       \* the values the setters have written, by variable name
    pc,           \* where run_doe is: "loop", "done" (returned), "raised"
    results,      \* run_doe's results list
    calls,        \* the design vectors handed to simulator.evaluate, in call order
    lastEval,     \* the last evaluate call: the step that failed, what it gave back
    \* ---- SurrogateModel (surrogate.py) ----
    doe_results,  \* the result rows handed to fit
    surrogate,    \* the SurrogateModel: _models, _obj_names, _X, _Y
    lastFit,      \* the last fit call: its problem, its valid rows, how it ended
    lastGood,     \* what the most recent successful fit alone gives a new model
    predicted,    \* what the last predict call returned
    \* ---- run_nsga2 (pareto.py) ----
    nsgaObjectives, \* problem.objectives of the search
    surface,      \* what surrogate.predict gives at each design point, by name
    engineSaw,    \* the design points and the F matrix of SurrogateProblem._evaluate
    pareto_result, \* the dict run_nsga2 returned: X, F, F_minimized
    \* ---- find_knee_point (pareto.py) ----
    kneeF,        \* the objective matrix handed to find_knee_point
    kneeRet,      \* the last find_knee_point call: the index it returned
    \* ---- select_top3 (pareto.py) ----
    topResult,    \* the dict handed to select_top3: X, F, F_minimized
    topObjectives, \* problem.objectives handed to select_top3
    selected,     \* the last select_top3 call: the list it returned
    \* ---- DesignVariable, OptimizationProblem, generate_lhs (design_space.py / doe.py) ----
    lhsProblem,   \* the OptimizationProblem constructed, if any
    lhsRet,       \* the last generate_lhs call: n_samples, how it ended, the samples
    \* ---- RocketSimulator as a context manager (simulation.py) ----
    lifeSim,      \* the simulator's _instance, _orh, _doc, _sim (0: None, else the instance)
    instances,    \* per OpenRocketInstance: its state and how often its __exit__ ran
    frames,       \* the with-statements whose body is running, outermost first
    mode,         \* "run", or "unwind" while an exception propagates
    evals,        \* how many evaluate calls were made
    lifeLast,     \* the last operation on the simulator
    \* ---- the tables and apply_design on one design vector (doe.py / visualize.py / simulation.py) ----
    fmtX,         \* the design vector, in tenths
    fmtTables,    \* the row each format function printed for it, if called
    fmtRocket     \* what apply_design wrote for it, if called

chkVars == <<chkCons, chkOutcome, chkSingle, chkAll>>

doeVars == <<problem, samples, simulator, rocket, pc, results, calls, lastEval>>

fitVars == <<doe_results, surrogate, lastFit, lastGood, predicted>>

nsgaVars == <<nsgaObjectives, surface, engineSaw, pareto_result>>

kneeVars == <<kneeF, kneeRet>>

topVars == <<topResult, topObjectives, selected>>

lhsVars == <<lhsProblem, lhsRet>>

lifeVars == <<lifeSim, instances, frames, mode, evals, lifeLast>>

fmtVars == <<fmtX, fmtTables, fmtRocket>>

vars == <<chkVars, doeVars, fitVars, nsgaVars, kneeVars, topVars, lhsVars, lifeVars, fmtVars>>

\* what the actions of one component leave alone
otherThanChk == <<doeVars, fitVars, nsgaVars, kneeVars, topVars, lhsVars, lifeVars, fmtVars>>
otherThanDoe == <<chkVars, fitVars, nsgaVars, kneeVars, topVars, lhsVars, lifeVars, fmtVars>>
otherThanFit == <<chkVars, doeVars, nsgaVars, kneeVars, topVars, lhsVars, lifeVars, fmtVars>>
otherThanNsga == <<chkVars, doeVars, fitVars, kneeVars, topVars, lhsVars, lifeVars, fmtVars>>
otherThanKnee == <<chkVars, doeVars, fitVars, nsgaVars, topVars, lhsVars, lifeVars, fmtVars>>
otherThanTop == <<chkVars, doeVars, fitVars, nsgaVars, kneeVars, lhsVars, lifeVars, fmtVars>>
otherThanLhs == <<chkVars, doeVars, fitVars, nsgaVars, kneeVars, topVars, lifeVars, fmtVars>>
otherThanLife == <<chkVars, doeVars, fitVars, nsgaVars, kneeVars, topVars, lhsVars, fmtVars>>
otherThanFmt == <<chkVars, doeVars, fitVars, nsgaVars, kneeVars, topVars, lhsVars, lifeVars>>

-----------------------------------------------------------------------------
(* Floating point values *)

NaN == [kind |-> "nan", v |-> 0]
PosInf == [kind |-> "inf", v |-> 1]
NegInf == [kind |-> "inf", v |-> -1]
Num(n) == [kind |-> "num", v |-> n]

isnan(x) == x.kind = "nan"
isinf(x) == x.kind = "inf"
isfinite(x) == x.kind = "num"

Abs(n) == IF n < 0 THEN -n ELSE n

\* a <= b on floats: false as soon as one side is NaN
FloatLe(a, b) ==
    /\ ~isnan(a)
    /\ ~isnan(b)
    /\ IF isinf(a) THEN (a.v = -1 \/ (isinf(b) /\ b.v = 1))
       ELSE IF isinf(b) THEN b.v = 1
       ELSE a.v <= b.v

FloatGe(a, b) == FloatLe(b, a)

FloatEq(a, b) == ~isnan(a) /\ ~isnan(b) /\ a = b

\* rel_tol = 1e-6, held as its inverse
RelTolInv == 10 ^ 6

\* math.isclose(a, b, rel_tol=1e-6) with the default abs_tol = 0.0:
\*   a == b -> True; an infinity -> False;
\*   diff <= |rel_tol * b| or diff <= |rel_tol * a| or diff <= abs_tol.
\* For whole numbers d and m, d <= m / 10^6 iff d <= m \div 10^6.
isclose(a, b) ==
    IF FloatEq(a, b) THEN TRUE
    ELSE IF isinf(a) \/ isinf(b) THEN FALSE
    ELSE LET diff == Abs(b.v - a.v)
         IN \/ diff <= Abs(b.v) \div RelTolInv
            \/ diff <= Abs(a.v) \div RelTolInv
            \/ diff <= 0

-----------------------------------------------------------------------------
(* ConstraintOperator and check_constraint (simulation.py) *)

\* the members of ConstraintOperator
ConstraintOperator == {"GE", "LE", "EQ"}

\* what a Constraint's operator field can hold: the dataclass does not
\* validate it, so a value outside the enum is possible
OperatorValues == ConstraintOperator \cup {"unknown"}

\* A call's result: the exception that left it ("none" when it returned) and
\* the value returned.
Returned(b) == [exc |-> "none", ret |-> b]
Raised(e) == [exc |-> e, ret |-> FALSE]

\* check_constraint with GE and LE as strict comparisons
check_constraint_strict(constraint, value) ==
    IF isnan(value) THEN Returned(FALSE)
    ELSE IF constraint.operator = "GE"
        THEN Returned(~FloatLe(value, Num(constraint.threshold)))
    ELSE IF constraint.operator = "LE"
        THEN Returned(~FloatGe(value, Num(constraint.threshold)))
    ELSE IF constraint.operator = "EQ"
        THEN Returned(isclose(value, Num(constraint.threshold)))
    ELSE Raised("ValueError")

\* check_constraint with the relative tolerance applied to GE and LE too
check_constraint_tolerant(constraint, value) ==
    IF isnan(value) THEN Returned(FALSE)
    ELSE IF constraint.operator = "GE"
        THEN Returned(FloatGe(value, Num(constraint.threshold))
                        \/ isclose(value, Num(constraint.threshold)))
    ELSE IF constraint.operator = "LE"
        THEN Returned(FloatLe(value, Num(constraint.threshold))
                        \/ isclose(value, Num(constraint.threshold)))
    ELSE IF constraint.operator = "EQ"
        THEN Returned(isclose(value, Num(constraint.threshold)))
    ELSE Raised("ValueError")

check_constraint(constraint, value) ==
    IF isnan(value) THEN Returned(FALSE)
    ELSE IF constraint.operator = "GE"
        THEN Returned(FloatGe(value, Num(constraint.threshold)))
    ELSE IF constraint.operator = "LE"
        THEN Returned(FloatLe(value, Num(constraint.threshold)))
    ELSE IF constraint.operator = "EQ"
        THEN Returned(isclose(value, Num(constraint.threshold)))
    ELSE Raised("ValueError")

\* outcome.get(name, float("nan"))
OutcomeGet(outcome, name) ==
    IF name \in DOMAIN outcome THEN outcome[name] ELSE NaN

\* check_constraints over the constraints from position k on: the loop
\* returns False at the first unsatisfied constraint, and the ValueError of
\* check_constraint leaves it
RECURSIVE check_constraints_from(_, _, _)
check_constraints_from(constraints, outcome, k) ==
    IF k > Len(constraints) THEN Returned(TRUE)
    ELSE LET con == constraints[k]
             r == check_constraint(con, OutcomeGet(outcome, con.name))
         IN IF r.exc # "none" THEN r
            ELSE IF ~r.ret THEN Returned(FALSE)
            ELSE check_constraints_from(constraints, outcome, k + 1)

check_constraints(constraints, outcome) ==
    check_constraints_from(constraints, outcome, 1)

-----------------------------------------------------------------------------
(* Extraction and _extract_scalar (simulation.py) *)

\* the members of Extraction
Extraction == {"max", "min", "final", "mean"}

\* what an extraction field can hold: the dataclasses do not validate it
ExtractionValues == Extraction \cup {"unknown"}

\* the elements of a series that are not NaN
NotNan(series) == {series[k] : k \in {j \in 1..Len(series) : ~isnan(series[j])}}

FloatMax(S) == CHOOSE x \in S : \A y \in S : FloatGe(x, y)
FloatMin(S) == CHOOSE x \in S : \A y \in S : FloatLe(x, y)

RECURSIVE SumFrom(_, _)
SumFrom(series, k) ==
    IF k > Len(series) THEN 0
    ELSE (IF isfinite(series[k]) THEN series[k].v ELSE 0) + SumFrom(series, k + 1)

\* np.nanmean: the mean of the elements that are not NaN (NaN when there is
\* none; an infinity when the series holds infinities of one sign, NaN when of
\* both). The finite values of the model are multiples of 12, so the mean of
\* up to four of them is a whole number.
nanmean(series) ==
    LET S == NotNan(series)
        n == Cardinality({k \in 1..Len(series) : ~isnan(series[k])})
    IN IF S = {} THEN NaN
       ELSE IF PosInf \in S /\ NegInf \in S THEN NaN
       ELSE IF PosInf \in S THEN PosInf
       ELSE IF NegInf \in S THEN NegInf
       ELSE Num(SumFrom(series, 1) \div n)

\* np.nanmax / np.nanmin: NaN (with a warning) when every element is NaN
nanmax(series) == IF NotNan(series) = {} THEN NaN ELSE FloatMax(NotNan(series))
nanmin(series) == IF NotNan(series) = {} THEN NaN ELSE FloatMin(NotNan(series))

\* the result of _extract_scalar: the exception or the scalar
extract_scalar(series, extraction) ==
    IF Len(series) = 0 THEN [exc |-> "none", val |-> NaN]
    ELSE IF extraction = "max" THEN [exc |-> "none", val |-> nanmax(series)]
    ELSE IF extraction = "min" THEN [exc |-> "none", val |-> nanmin(series)]
    ELSE IF extraction = "final" THEN [exc |-> "none", val |-> series[Len(series)]]
    ELSE IF extraction = "mean" THEN [exc |-> "none", val |-> nanmean(series)]
    ELSE [exc |-> "ValueError", val |-> NaN]

-----------------------------------------------------------------------------
(* RocketSimulator (simulation.py) *)

NotEntered == [_instance |-> "None", _orh |-> "None", _doc |-> "None", _sim |-> "None"]
Entered == [_instance |-> "obj", _orh |-> "obj", _doc |-> "obj", _sim |-> "obj"]

\* Python's round(): to the nearest whole number, a half to the even one.
\* Design values are counted in tenths; the result is a whole number.
round(val) ==
    LET q == val \div 10
        r == val % 10
    IN IF r < 5 THEN q
       ELSE IF r > 5 THEN q + 1
       ELSE IF q % 2 = 0 THEN q ELSE q + 1

Min2(a, b) == IF a <= b THEN a ELSE b

\* apply_design from the k-th variable on; failAt is the variable whose
\* component lookup or setter raises (0: none). The values written before
\* the failure stay written.
RECURSIVE apply_design_from(_, _, _, _, _)
apply_design_from(variables, values, rk, failAt, k) ==
    IF k > Min2(Len(variables), Len(values)) THEN [exc |-> "none", rocket |-> rk]
    ELSE IF k = failAt THEN [exc |-> "Exception", rocket |-> rk]
    ELSE LET var == variables[k]
             val == IF var.is_integer THEN 10 * round(values[k]) ELSE values[k]
         IN apply_design_from(variables, values,
                              [rk EXCEPT ![var.name] = val], failAt, k + 1)

\* self.sim asserts that the simulator was entered before anything is written
apply_design(sim, variables, values, rk, failAt) ==
    IF sim._sim = "None" THEN [exc |-> "AssertionError", rocket |-> rk]
    ELSE apply_design_from(variables, values, rk, failAt, 1)

\* results[name] = value
MapPut(m, key, val) ==
    [n \in DOMAIN m \cup {key} |-> IF n = key THEN val ELSE m[n]]

EmptyMap == [n \in {} |-> NaN]

\* the extraction loops of run_and_extract over the objectives and then the
\* constraints; an exception leaves the loop with the dict as filled so far
RECURSIVE extract_from(_, _, _, _)
extract_from(items, data, acc, k) ==
    IF k > Len(items) THEN [exc |-> "none", results |-> acc]
    ELSE LET r == extract_scalar(data[items[k].flight_data_type], items[k].extraction)
         IN IF r.exc # "none" THEN [exc |-> r.exc, results |-> acc]
            ELSE extract_from(items, data, MapPut(acc, items[k].name, r.val), k + 1)

\* run_and_extract: env.runFail is run_simulation (or the lookup of a flight
\* data type, or get_timeseries) raising, env.data the time series read
run_and_extract(sim, objectives, constraints, env) ==
    IF sim._orh = "None" \/ sim._sim = "None"
        THEN [exc |-> "AssertionError", results |-> EmptyMap]
    ELSE IF env.runFail THEN [exc |-> "Exception", results |-> EmptyMap]
    ELSE extract_from(objectives \o constraints, env.data, EmptyMap, 1)

\* {name: float("nan") for name in names}
NanMapping(prob) ==
    [n \in {prob.objectives[k].name : k \in 1..Len(prob.objectives)} \cup
            {prob.constraints[k].name : k \in 1..Len(prob.constraints)} |-> NaN]

\* evaluate handing back, on an exception, whatever run_and_extract had
\* extracted before it was raised
evaluate_partial(sim, prob, x, rk, env) ==
    LET a == apply_design(sim, prob.variables, x, rk, env.applyFail)
        r == run_and_extract(sim, prob.objectives, prob.constraints, env)
    IN IF a.exc # "none"
          THEN [exc |-> "none", isNone |-> FALSE, outcome |-> NanMapping(prob),
                rocket |-> a.rocket,
                step |-> IF a.exc = "AssertionError" THEN "not_entered"
                         ELSE "apply_design"]
       ELSE [exc |-> "none", isNone |-> FALSE, outcome |-> r.results,
             rocket |-> a.rocket,
             step |-> IF r.exc = "none" THEN "none"
                      ELSE IF env.runFail THEN "run_simulation" ELSE "extract"]

\* evaluate, whose except clause turns any Exception into the all-NaN mapping
\* (exc is what reaches the caller, isNone whether None was returned, step the
\* step that failed)
evaluate(sim, prob, x, rk, env) ==
    LET a == apply_design(sim, prob.variables, x, rk, env.applyFail)
        r == run_and_extract(sim, prob.objectives, prob.constraints, env)
    IN IF a.exc # "none"
          THEN [exc |-> "none", isNone |-> FALSE, outcome |-> NanMapping(prob),
                rocket |-> a.rocket,
                step |-> IF a.exc = "AssertionError" THEN "not_entered"
                         ELSE "apply_design"]
       ELSE IF r.exc # "none"
          THEN [exc |-> "none", isNone |-> FALSE, outcome |-> NanMapping(prob),
                rocket |-> a.rocket,
                step |-> IF env.runFail THEN "run_simulation" ELSE "extract"]
       ELSE [exc |-> "none", isNone |-> FALSE, outcome |-> r.results,
             rocket |-> a.rocket, step |-> "none"]

NoEval == [called |-> FALSE, step |-> "none", exc |-> "none", isNone |-> FALSE,
           outcome |-> EmptyMap]

-----------------------------------------------------------------------------
(* SurrogateModel (surrogate.py) *)

\* _X is None until a fit assigns it
NoneX == [none |-> TRUE, rows |-> <<>>]

\* SurrogateModel.__init__
NewSurrogate ==
    [_models |-> EmptyMap, _obj_names |-> <<>>, _X |-> NoneX, _Y |-> EmptyMap]

\* RBFInterpolator(X, y, kernel=kernel): the interpolant is what its training
\* inputs and outputs make it
RBFInterpolator(X, y) == [X |-> X, y |-> y]

\* the rows fit keeps: all(not math.isnan(r.get(name, nan)) for name in names)
ValidRows(rows, names) ==
    SelectSeq(rows, LAMBDA r :
        \A k \in 1..Len(names) : ~isnan(OutcomeGet(r.outcome, names[k])))

\* the loop of fit over the objective names from the k-th on
RECURSIVE fit_from(_, _, _, _, _)
fit_from(model, names, valid, X, k) ==
    IF k > Len(names) THEN model
    ELSE LET y == [j \in 1..Len(valid) |-> valid[j].outcome[names[k]]]
         IN fit_from([model EXCEPT
                        !._Y = MapPut(model._Y, names[k], y),
                        !._models = MapPut(model._models, names[k],
                                           RBFInterpolator(X, y))],
                     names, valid, X, k + 1)

\* fit: _obj_names is assigned first, then the rows are filtered, then the
\* ValueError or the assignments of _X, _Y[name] and _models[name]
fit(model, rows, prob) ==
    LET names == [k \in 1..Len(prob.objectives) |-> prob.objectives[k].name]
        valid == ValidRows(rows, names)
        named == [model EXCEPT !._obj_names = names]
        X == [j \in 1..Len(valid) |-> valid[j].x]
    IN IF Len(valid) < 2
          THEN [exc |-> "ValueError", model |-> named, valid |-> valid]
          ELSE [exc |-> "none", valid |-> valid,
                model |-> fit_from([named EXCEPT !._X = [none |-> FALSE, rows |-> X]],
                                   names, valid, X, 1)]

\* predict: one array per key of _models, the interpolant evaluated at Xq
predict(model, Xq) ==
    [n \in DOMAIN model._models |-> [interpolant |-> model._models[n], at |-> Xq]]

NoFit == [called |-> FALSE, names |-> <<>>, exc |-> "none", valid |-> <<>>,
          modelsBefore |-> EmptyMap]

NoPredict == [called |-> FALSE, arrays |-> EmptyMap]

IdleFit ==
    /\ doe_results = <<>>
    /\ surrogate = NewSurrogate
    /\ lastFit = NoFit
    /\ lastGood = NewSurrogate
    /\ predicted = NoPredict

-----------------------------------------------------------------------------
(* SurrogateProblem._evaluate and run_nsga2 (pareto.py) *)

\* _evaluate: the surrogate's prediction of every objective at every point
\* of X, the column of a maximize objective negated
SurrogateProblem_evaluate(surf, objs, X) ==
    [i \in 1..Len(X) |->
        [j \in 1..Len(objs) |->
            IF objs[j].direction = "maximize"
                THEN 0 - surf[X[i]][objs[j].name]
                ELSE surf[X[i]][objs[j].name]]]

\* row a is at least as small as row b in every column and smaller in one
DominatesMin(a, b) ==
    /\ \A j \in 1..Len(a) : a[j] <= b[j]
    /\ \E j \in 1..Len(a) : a[j] < b[j]

\* the positions, in order, of the rows of F no other row dominates
RECURSIVE NonDominatedFrom(_, _)
NonDominatedFrom(F, i) ==
    IF i > Len(F) THEN <<>>
    ELSE (IF \E k \in 1..Len(F) : DominatesMin(F[k], F[i]) THEN <<>> ELSE <<i>>)
            \o NonDominatedFrom(F, i + 1)

\* minimize(pymoo_problem, algorithm, termination): the engine evaluates the
\* population X through _evaluate and gives back, as res.X and res.F, the
\* points and rows that are not dominated
minimize(surf, objs, X) ==
    LET F == SurrogateProblem_evaluate(surf, objs, X)
        keep == NonDominatedFrom(F, 1)
    IN [X |-> [i \in 1..Len(keep) |-> X[keep[i]]],
        F |-> [i \in 1..Len(keep) |-> F[keep[i]]]]

\* F_original = res.F.copy(), the column of every maximize objective negated
F_original(resF, objs) ==
    [i \in 1..Len(resF) |->
        [j \in 1..Len(objs) |->
            IF objs[j].direction = "maximize" THEN 0 - resF[i][j] ELSE resF[i][j]]]

\* run_nsga2 without the copy: F_original is res.F itself, so the negation
\* in place shows in F_minimized too
run_nsga2_nocopy(surf, objs, X) ==
    LET res == minimize(surf, objs, X)
    IN [X |-> res.X, F |-> F_original(res.F, objs),
        F_minimized |-> F_original(res.F, objs)]

\* the dict run_nsga2 returns
run_nsga2(surf, objs, X) ==
    LET res == minimize(surf, objs, X)
    IN [X |-> res.X, F |-> F_original(res.F, objs), F_minimized |-> res.F]

NoResult == [returned |-> FALSE, X |-> <<>>, F |-> <<>>, F_minimized |-> <<>>]

NotEvaluated == [X |-> <<>>, F |-> <<>>]

IdleNsga ==
    /\ nsgaObjectives = <<>>
    /\ surface = <<>>
    /\ engineSaw = NotEvaluated
    /\ pareto_result = NoResult

-----------------------------------------------------------------------------------------------------------------------------------------------------
(* find_knee_point (pareto.py)                                             *)
(* A matrix is a sequence of rows of values counted in tenths; the indices *)
(* returned count from 0. The arithmetic of the model is exact. Floating   *)
(* point agrees with it when every value of the matrix is a whole number   *)
(* and every normalized value a dyadic fraction: nothing is rounded then.  *)
(* Otherwise two distances that are equal in exact arithmetic can be       *)
(* computed as different floats, and the first maximum of the computed     *)
(* distances is one of the exact maxima, not always the first.             *)

\* np.argmax with the last of equal maxima taken
argmax_last(v) ==
    (CHOOSE k \in 1..Len(v) :
        /\ \A i \in 1..Len(v) : v[i] <= v[k]
        /\ \A i \in (k + 1)..Len(v) : v[i] < v[k]) - 1

\* np.argmin: the first position of the minimum
argmin(v) ==
    (CHOOSE k \in 1..Len(v) :
        /\ \A i \in 1..Len(v) : v[k] <= v[i]
        /\ \A i \in 1..(k - 1) : v[i] > v[k]) - 1

\* np.argmax: the first position of the maximum
argmax(v) ==
    (CHOOSE k \in 1..Len(v) :
        /\ \A i \in 1..Len(v) : v[i] <= v[k]
        /\ \A i \in 1..(k - 1) : v[i] < v[k]) - 1

Column(F, j) == [i \in 1..Len(F) |-> F[i][j]]

\* F.min(axis=0)[j] and F.max(axis=0)[j]
f_min(F, j) == Column(F, j)[argmin(Column(F, j)) + 1]
f_max(F, j) == Column(F, j)[argmax(Column(F, j)) + 1]

\* f_range[j], with f_range[f_range == 0] = 1.0 (ten tenths)
f_range(F, j) ==
    IF f_max(F, j) - f_min(F, j) = 0 THEN 10 ELSE f_max(F, j) - f_min(F, j)

\* F_norm[i][j] = (F[i][j] - f_min[j]) / f_range[j] is the fraction of this
\* numerator over f_range[j]
F_norm_num(F, i, j) == F[i][j] - f_min(F, j)

\* the product of the ranges of the columns other than j
RECURSIVE RangeProduct(_, _, _)
RangeProduct(F, j, l) ==
    IF l > Len(F[1]) THEN 1
    ELSE (IF l = j THEN 1 ELSE f_range(F, l)) * RangeProduct(F, j, l + 1)

\* F_norm.sum(axis=1)[i] over the common denominator of all the ranges
RECURSIVE SumNum(_, _, _)
SumNum(F, i, j) ==
    IF j > Len(F[1]) THEN 0
    ELSE F_norm_num(F, i, j) * RangeProduct(F, j, 1) + SumNum(F, i, j + 1)

\* whether floating point computes F_norm and what follows without rounding:
\* every value is a whole number and every normalized value a dyadic
\* fraction (a correctly rounded division gives a representable quotient
\* exactly)
FloatExact(F) ==
    \A i \in 1..Len(F) : \A j \in 1..Len(F[i]) :
        /\ F[i][j] % 10 = 0
        /\ \E k \in 0..8 : (F_norm_num(F, i, j) * (2 ^ k)) % f_range(F, j) = 0

\* the positions np.argmax can return for the computed values whose exact
\* values are v: the first maximum when floating point is exact on F;
\* otherwise a row of maximal exact value (equal rows are computed alike, so
\* of equal rows the first)
argmax_computed(v, F) ==
    IF FloatExact(F) THEN {argmax(v)}
    ELSE {k - 1 : k \in {k \in 1..Len(v) :
                    /\ \A i \in 1..Len(v) : v[i] <= v[k]
                    /\ \A i \in 1..(k - 1) : F[i] # F[k]}}

\* np.argmin of computed values, likewise
argmin_computed(v, F) ==
    IF FloatExact(F) THEN {argmin(v)}
    ELSE {k - 1 : k \in {k \in 1..Len(v) :
                    /\ \A i \in 1..Len(v) : v[k] <= v[i]
                    /\ \A i \in 1..(k - 1) : F[i] # F[k]}}

\* The indices find_knee_point can return. In the two-objective branch, with
\* A and B the normalized rows at idx_a and idx_b, np.cross(AB, A - F_norm[i])
\* is the fraction of CrossNum over f_range[0] * f_range[1], so dists[i] is
\* |CrossNum| times the positive factor 1 / (f_range[0] * f_range[1] * AB_len),
\* the same for every i: the order of dists is the order of |CrossNum|.
\* (Equal values of a column are normalized alike, so idx_a and idx_b are the
\* first minima of the columns whatever the rounding.)
find_knee_point(F) ==
    IF Len(F) <= 2 THEN {0}
    ELSE IF Len(F[1]) = 2 THEN
        LET idx_a == argmin([i \in 1..Len(F) |-> F_norm_num(F, i, 1)])
            idx_b == argmin([i \in 1..Len(F) |-> F_norm_num(F, i, 2)])
            Ax == F_norm_num(F, idx_a + 1, 1)
            Ay == F_norm_num(F, idx_a + 1, 2)
            ABx == F_norm_num(F, idx_b + 1, 1) - Ax
            ABy == F_norm_num(F, idx_b + 1, 2) - Ay
            CrossNum(i) == ABx * (Ay - F_norm_num(F, i, 2))
                            - ABy * (Ax - F_norm_num(F, i, 1))
        IN IF ABx = 0 /\ ABy = 0 THEN {0}
           ELSE argmax_computed([i \in 1..Len(F) |-> Abs(CrossNum(i))], F)
    ELSE argmin_computed([i \in 1..Len(F) |-> SumNum(F, i, 1)], F)

NoKnee == [called |-> FALSE, ret |-> 0]

IdleKnee ==
    /\ kneeF = <<>>
    /\ kneeRet = NoKnee

-----------------------------------------------------------------------------
(* select_top3 (pareto.py)                                                 *)
(* A candidate is the dict with "index", "x", "f" and "label".             *)

Candidate(idx, X, F, lbl) ==
    [index |-> idx, x |-> X[idx + 1], f |-> F[idx + 1], label |-> lbl]

\* f"Best {obj.name}"
BestLabel(name) ==
    CASE name = "apogee" -> "Best apogee"
      [] name = "mass" -> "Best mass"
      [] name = "speed" -> "Best speed"
      [] OTHER -> "Best"

\* the first column whatever the name
IndexOfName_first(objs, name) == 1

\* [o.name for o in problem.objectives].index(obj.name): the position,
\* counted from 1 here, of the first objective that has the name
IndexOfName(objs, name) ==
    CHOOSE j \in 1..Len(objs) :
        objs[j].name = name /\ \A l \in 1..(j - 1) : objs[l].name # name

\* used_indices never added to
used_indices_never(sel) == {}

\* used_indices, which holds the index of every candidate of selected
used_indices(sel) == {sel[k].index : k \in 1..Len(sel)}

\* the "Best per objective" loop from objective k on
RECURSIVE BestPerObjective(_, _, _, _, _)
BestPerObjective(F, X, objs, k, sel) ==
    IF k > Len(objs) THEN sel
    ELSE LET j == IndexOfName(objs, objs[k].name)
             best_idx == IF objs[k].direction = "maximize"
                            THEN argmax(Column(F, j))
                            ELSE argmin(Column(F, j))
         IN IF best_idx \notin used_indices(sel) /\ Len(sel) < 3
               THEN BestPerObjective(F, X, objs, k + 1,
                        Append(sel, Candidate(best_idx, X, F,
                                              BestLabel(objs[k].name))))
               ELSE BestPerObjective(F, X, objs, k + 1, sel)

\* np.linalg.norm(F_norm[i] - F_norm[k]) squared, over the common
\* denominator of the squared ranges
RECURSIVE DistSqNum(_, _, _, _)
DistSqNum(F, i, k, j) ==
    IF j > Len(F[1]) THEN 0
    ELSE (F[i][j] - F[k][j]) * (F[i][j] - F[k][j])
            * RangeProduct(F, j, 1) * RangeProduct(F, j, 1)
         + DistSqNum(F, i, k, j + 1)

\* min_dists[i], squared: -1 for a used index, otherwise the least distance
\* to a selected point
min_dists(F, sel, i) ==
    IF (i - 1) \in used_indices(sel) THEN -1
    ELSE LET d(s) == DistSqNum(F, i, sel[s].index + 1, 1)
             m == CHOOSE s \in 1..Len(sel) : \A t \in 1..Len(sel) : d(s) <= d(t)
         IN d(m)

\* the positions np.argmax(min_dists) can return: the first maximum when
\* floating point is exact on F; otherwise a position of maximal exact value
\* (of equal rows with equal values the first)
argmax_min_dists(v, F) ==
    IF FloatExact(F) THEN {argmax(v)}
    ELSE {k - 1 : k \in {k \in 1..Len(v) :
                    /\ \A i \in 1..Len(v) : v[i] <= v[k]
                    /\ \A i \in 1..(k - 1) : ~(F[i] = F[k] /\ v[i] = v[k])}}

\* the "Fill with most distant point" step: the lists it can leave
MostDiverse(F, X, sel) ==
    IF Len(sel) < 3 /\ Len(F) > Len(sel)
        THEN {IF farthest \notin used_indices(sel)
                THEN Append(sel, Candidate(farthest, X, F, "Most diverse"))
                ELSE sel :
              farthest \in argmax_min_dists(
                              [i \in 1..Len(F) |-> min_dists(F, sel, i)], F)}
        ELSE {sel}

\* The lists select_top3(pareto_result, problem) can return
select_top3(pr, objs) ==
    IF Len(pr.F) = 0 THEN {<<>>}
    ELSE UNION {MostDiverse(pr.F, pr.X,
                    BestPerObjective(pr.F, pr.X, objs, 1,
                        <<Candidate(knee_idx, pr.X, pr.F, "Knee point")>>)) :
                knee_idx \in find_knee_point(pr.F)}

NoSelection == [called |-> FALSE, ret |-> <<>>]

IdleTop ==
    /\ topResult = NoResult
    /\ topObjectives = <<>>
    /\ selected = NoSelection

-----------------------------------------------------------------------------
(* DesignVariable, OptimizationProblem (design_space.py) and generate_lhs  *)
(* (doe.py). Bounds and sample values are counted in tenths.               *)

\* DesignVariable(...): the dataclass stores its fields as given
DesignVariable(name, lower_bound, upper_bound, is_integer) ==
    [name |-> name, component_name |-> "Trapezoidal fin set",
     is_simulation_option |-> FALSE, is_integer |-> is_integer,
     lower_bound |-> lower_bound, upper_bound |-> upper_bound]

\* OptimizationProblem(ork_file, variables): the dataclass stores the list
OptimizationProblem(variables) ==
    [built |-> TRUE, variables |-> variables]

n_var(p) == Len(p.variables)

lower_bounds(p) == [i \in 1..Len(p.variables) |-> p.variables[i].lower_bound]

upper_bounds(p) == [i \in 1..Len(p.variables) |-> p.variables[i].upper_bound]

\* sampler.random(n): n rows of d values of [0, 1), here the fifths 0/5 ..
\* 4/5 given by their numerators, each column with exactly one value in each
\* of the n strata [k/n, (k+1)/n)
LatinHypercube_random(n, d) ==
    {U \in [1..n -> [1..d -> 0..4]] :
        \A j \in 1..d : \A k \in 0..(n - 1) :
            Cardinality({i \in 1..n :
                k * 5 <= U[i][j] * n /\ U[i][j] * n < (k + 1) * 5}) = 1}

\* qmc.scale(unit_samples, lower, upper): lower + u * (upper - lower); it
\* raises ValueError unless lower < upper on every axis
qmc_scale(U, lower, upper) ==
    IF \E j \in 1..Len(lower) : ~(lower[j] < upper[j])
        THEN [exc |-> "ValueError", samples |-> <<>>]
        ELSE [exc |-> "none",
              samples |-> [i \in 1..Len(U) |->
                            [j \in 1..Len(lower) |->
                                lower[j] + (U[i][j] * (upper[j] - lower[j])) \div 5]]]

\* np.round: to the nearest whole number, a half to the even one; the
\* result, like the argument, in tenths
np_round(val) ==
    LET q == val \div 10
        r == val % 10
    IN IF r < 5 THEN 10 * q
       ELSE IF r > 5 THEN 10 * (q + 1)
       ELSE IF q % 2 = 0 THEN 10 * q ELSE 10 * (q + 1)

\* generate_lhs(problem, n_samples) when the sampler draws unit_samples
generate_lhs(p, n_samples, unit_samples) ==
    LET scaled == qmc_scale(unit_samples, lower_bounds(p), upper_bounds(p))
    IN IF scaled.exc # "none"
          THEN [called |-> TRUE, n_samples |-> n_samples, exc |-> scaled.exc,
                samples |-> <<>>]
          ELSE [called |-> TRUE, n_samples |-> n_samples, exc |-> "none",
                samples |-> [i \in 1..Len(scaled.samples) |->
                    [j \in 1..n_var(p) |->
                        IF p.variables[j].is_integer
                            THEN np_round(scaled.samples[i][j])
                            ELSE scaled.samples[i][j]]]]

NoProblem == [built |-> FALSE, variables |-> <<>>]

NoLhs == [called |-> FALSE, n_samples |-> 0, exc |-> "none", samples |-> <<>>]

IdleLhs ==
    /\ lhsProblem = NoProblem
    /\ lhsRet = NoLhs

-----------------------------------------------------------------------------
(* RocketSimulator.__init__, __enter__ and __exit__ (simulation.py)        *)
(* OpenRocket instances are numbered from 1 in the order of their          *)
(* creation; a handle is 0 for None, otherwise the number of the instance  *)
(* it belongs to.                                                          *)

\* __init__: every handle None
RocketSimulator_init == [_instance |-> 0, _orh |-> 0, _doc |-> 0, _sim |-> 0]

\* __enter__ creating instance id; fail names the call of __enter__ that
\* raises: "instance" (OpenRocketInstance.__enter__), "load_doc",
\* "getSimulation", or "none". The assignments made before the failing call
\* stay.
RocketSimulator_enter(sim, inst, id, fail) ==
    LET s1 == [sim EXCEPT !._instance = id]
        created == [inst EXCEPT ![id] = [state |-> "created", exits |-> 0]]
        started == [inst EXCEPT ![id] = [state |-> "started", exits |-> 0]]
        s2 == [s1 EXCEPT !._orh = id]
        s3 == [s2 EXCEPT !._doc = id]
        s4 == [s3 EXCEPT !._sim = id]
    IN IF fail = "instance" THEN [exc |-> "Exception", sim |-> s1, inst |-> created]
       ELSE IF fail = "load_doc" THEN [exc |-> "Exception", sim |-> s2, inst |-> started]
       ELSE IF fail = "getSimulation" THEN [exc |-> "Exception", sim |-> s3, inst |-> started]
       ELSE [exc |-> "none", sim |-> s4, inst |-> started]

\* __exit__: the instance held, if any, has its __exit__ called; every
\* handle is None afterwards
RocketSimulator_exit(sim, inst) ==
    [sim |-> RocketSimulator_init,
     inst |-> IF sim._instance # 0
                THEN [inst EXCEPT ![sim._instance].exits = @ + 1]
                ELSE inst]

NoInstances == <<>>

IdleLife ==
    /\ lifeSim = RocketSimulator_init
    /\ instances = NoInstances
    /\ frames = <<>>
    /\ mode = "run"
    /\ evals = 0
    /\ lifeLast = "__init__"

-----------------------------------------------------------------------------
(* format_doe_table, format_doe_results_table (doe.py) and                 *)
(* format_results_table (visualize.py). A cell is the sequence of its      *)
(* characters; a row is the sequence of its cells.                         *)

\* int(val): the whole part of val, which is in tenths, truncated towards 0
int(val) == IF val >= 0 THEN val \div 10 ELSE 0 - ((0 - val) \div 10)

DigitChar(k) ==
    CASE k = 0 -> "0" [] k = 1 -> "1" [] k = 2 -> "2" [] k = 3 -> "3"
      [] k = 4 -> "4" [] k = 5 -> "5" [] k = 6 -> "6" [] k = 7 -> "7"
      [] k = 8 -> "8" [] k = 9 -> "9"

\* the decimal digits of a natural number
RECURSIVE Digits(_)
Digits(n) ==
    IF n < 10 THEN <<DigitChar(n)>>
    ELSE Digits(n \div 10) \o <<DigitChar(n % 10)>>

\* str(n) of a whole number
str(n) == IF n < 0 THEN <<"-">> \o Digits(0 - n) ELSE Digits(n)

\* f"{val:.4f}" of a value in tenths
format_4f(val) ==
    (IF val < 0 THEN <<"-">> ELSE <<>>)
        \o Digits((IF val < 0 THEN 0 - val ELSE val) \div 10)
        \o <<".", DigitChar((IF val < 0 THEN 0 - val ELSE val) % 10), "0", "0", "0">>

\* the cell of an objective or constraint value: "NaN" or f"{val:.4f}" of a
\* whole number
ValueCell(f) ==
    IF isnan(f) THEN <<"N", "a", "N">>
    ELSE IF isinf(f) THEN (IF f.v < 0 THEN <<"-", "i", "n", "f">> ELSE <<"i", "n", "f">>)
    ELSE format_4f(10 * f.v)

\* format_doe_table: the row of sample number i with values row
format_doe_table(variables, i, row) ==
    <<str(i)>> \o
    [j \in 1..Len(row) |->
        IF variables[j].is_integer THEN str(int(row[j])) ELSE format_4f(row[j])]

\* format_doe_results_table: the row of record number i
format_doe_results_table(variables, names, i, rec) ==
    <<str(i)>>
    \o [j \in 1..Len(variables) |->
        IF variables[j].is_integer THEN str(int(rec.x[j])) ELSE format_4f(rec.x[j])]
    \o [k \in 1..Len(names) |-> ValueCell(rec.outcome[names[k]])]
    \o <<IF rec.feasible THEN <<"Y", "e", "s">> ELSE <<"N", "o">>>>

\* format_results_table: the row of candidate cand
format_results_table(variables, n_objectives, cand) ==
    <<(<<cand.label>>)>>
    \o [j \in 1..Len(variables) |->
        IF variables[j].is_integer THEN str(int(cand.x[j])) ELSE format_4f(cand.x[j])]
    \o [j \in 1..n_objectives |-> ValueCell(cand.f[j])]

NoTables == [doe |-> <<>>, doe_results |-> <<>>, results |-> <<>>]

NotWritten == [written |-> FALSE, values |-> <<>>]

IdleFmt ==
    /\ fmtX = <<>>
    /\ fmtTables = NoTables
    /\ fmtRocket = NotWritten

-----------------------------------------------------------------------------
(* run_doe at rest: no problem, no samples, a simulator never entered *)

IdleDoe ==
    /\ problem = [variables |-> <<>>, objectives |-> <<>>, constraints |-> <<>>]
    /\ samples = <<>>
    /\ simulator = NotEntered
    /\ rocket = <<>>
    /\ pc = "idle"
    /\ results = <<>>
    /\ calls = <<>>
    /\ lastEval = NoEval

-----------------------------------------------------------------------------
(* Harness of the constraint checker: the inputs are drawn in Init, the    *)
(* actions call check_constraint and check_constraints on them.            *)
(* Values and thresholds are counted in units of 1e-7.                     *)

Scale == 10 ^ 7

MaxCon == 2

ConNames == <<"c1", "c2", "c3", "c4">>

Thresholds == {1 * Scale, 5 * Scale, 10 * Scale}

\* 1.0000005, 1.0000011 and 0.9999989 around 1.0; 5.0000001 and 4.9999999
\* around 5; 10.0000001 and 9.9999999 around 10
CheckValues ==
    {NaN, PosInf, NegInf} \cup
    {Num(n) : n \in {0, Scale, Scale + 5, Scale + 11, Scale - 11,
                     5 * Scale, 5 * Scale + 1, 5 * Scale - 1,
                     10 * Scale, 10 * Scale + 1, 10 * Scale - 1}}

OutcomeValues == {NaN, Num(Scale), Num(10 * Scale)}

ConstraintsNamed(n) ==
    [name : {n}, flight_data_type : {"TYPE_VELOCITY_TOTAL"},
     extraction : {"max"}, operator : OperatorValues, threshold : Thresholds]

ConstraintLists ==
    UNION {{cs \in [1..k -> UNION {ConstraintsNamed(ConNames[j]) : j \in 1..k}] :
                \A j \in 1..k : cs[j].name = ConNames[j]} : k \in 0..MaxCon}

\* the mappings that hold a value for some of the names
PartialMaps(names, values) ==
    UNION {[d -> values] : d \in SUBSET names}

DefaultSingle ==
    [called |-> FALSE,
     con |-> [name |-> "c1", flight_data_type |-> "TYPE_VELOCITY_TOTAL",
              extraction |-> "max", operator |-> "GE", threshold |-> Scale],
     value |-> NaN, res |-> Returned(FALSE)]

NoCall == [called |-> FALSE, res |-> Returned(FALSE)]

\* the constraint checker harness at rest
IdleCheck ==
    /\ chkCons = <<>>
    /\ chkOutcome = <<>>
    /\ chkSingle = DefaultSingle
    /\ chkAll = NoCall

InitCheck ==
    /\ IdleDoe
    /\ IdleFit
    /\ IdleNsga
    /\ IdleKnee
    /\ IdleTop
    /\ IdleLhs
    /\ IdleLife
    /\ IdleFmt
    /\ chkAll = NoCall
    /\ \/ /\ chkCons = <<>>
          /\ chkOutcome = <<>>
          /\ \E c \in ConstraintsNamed("c1"), v \in CheckValues :
                chkSingle = [called |-> FALSE, con |-> c, value |-> v,
                             res |-> Returned(FALSE)]
       \/ /\ chkSingle = DefaultSingle
          /\ chkCons \in ConstraintLists
          /\ chkOutcome \in PartialMaps({ConNames[j] : j \in 1..MaxCon}, OutcomeValues)

CallCheckConstraint ==
    /\ ~chkSingle.called
    /\ chkSingle' = [chkSingle EXCEPT !.called = TRUE,
                        !.res = check_constraint(chkSingle.con, chkSingle.value)]
    /\ UNCHANGED <<chkCons, chkOutcome, chkAll, otherThanChk>>

CallCheckConstraints ==
    /\ ~chkAll.called
    /\ chkAll' = [called |-> TRUE, res |-> check_constraints(chkCons, chkOutcome)]
    /\ UNCHANGED <<chkCons, chkOutcome, chkSingle, otherThanChk>>

NextCheck == CallCheckConstraint \/ CallCheckConstraints

SpecCheck == InitCheck /\ [][NextCheck]_vars

Max2(a, b) == IF a >= b THEN a ELSE b

\* C4: check_constraint returns False for a NaN value under every operator;
\* for a value that is not NaN it returns value >= threshold for GE and
\* value <= threshold for LE (both true at value = threshold), and for EQ it
\* returns true exactly when the two are within relative tolerance 1e-6.
\* check_constraints is the AND of check_constraint over the problem's
\* constraints, a name absent from the outcome counting as NaN.
C4_CheckConstraintSemantics ==
    /\ chkSingle.called =>
          LET v == chkSingle.value
              t == chkSingle.con.threshold
              op == chkSingle.con.operator
              r == chkSingle.res
          IN /\ isnan(v) => r = Returned(FALSE)
             /\ op \in ConstraintOperator => r.exc = "none"
             /\ (~isnan(v) /\ op = "GE") =>
                    r.ret = (v = PosInf \/ (isfinite(v) /\ v.v >= t))
             /\ (~isnan(v) /\ op = "LE") =>
                    r.ret = (v = NegInf \/ (isfinite(v) /\ v.v <= t))
             /\ (~isnan(v) /\ op = "EQ") =>
                    r.ret = (/\ isfinite(v)
                             /\ Abs(v.v - t) <= Max2(Abs(v.v), Abs(t)) \div RelTolInv)
             /\ (isfinite(v) /\ v.v = t /\ op \in ConstraintOperator) => r.ret
    /\ (chkAll.called /\ \A k \in 1..Len(chkCons) :
                            chkCons[k].operator \in ConstraintOperator) =>
          chkAll.res =
            Returned(\A k \in 1..Len(chkCons) :
                        check_constraint(
                            chkCons[k],
                            IF chkCons[k].name \in DOMAIN chkOutcome
                                THEN chkOutcome[chkCons[k].name] ELSE NaN).ret)

\* C4's case: EQ with threshold 1.0 and value 1.0000005 answered true, and a
\* two-constraint problem answered with one name absent from the outcome
C4_Witness ==
    \/ /\ chkSingle.called
       /\ chkSingle.con.operator = "EQ"
       /\ chkSingle.con.threshold = Scale
       /\ chkSingle.value = Num(Scale + 5)
       /\ chkSingle.res = Returned(TRUE)
    \/ /\ chkAll.called
       /\ Len(chkCons) = 2
       /\ chkCons[1].operator = "GE" /\ chkCons[2].operator = "LE"
       /\ DOMAIN chkOutcome = {"c1"}
       /\ chkAll.res = Returned(FALSE)

C5_Case ==
    /\ chkSingle.called
    /\ chkSingle.con.operator = "LE"
    /\ chkSingle.con.threshold = 5 * Scale
    /\ chkSingle.value = Num(5 * Scale + 1)

\* C5 as stated: check_constraint with operator LE, threshold 5 and value
\* 5.0000001 returns true.
C5_Original == C5_Case => chkSingle.res = Returned(TRUE)

\* C5 amended: check_constraint with operator LE, threshold 5 and value
\* 5.0000001 returns false (the comparison is literal).
C5_LeIsLiteral == C5_Case => chkSingle.res = Returned(FALSE)

C5_Witness == C5_Case /\ chkSingle.res.exc = "none"

-----------------------------------------------------------------------------
(* run_doe (doe.py) over a RocketSimulator                                 *)
(* Design values are counted in tenths, flight data in whole units.        *)

MaxSamples == 2

DesignVariables ==
    <<[name |-> "fin_height", component_name |-> "Trapezoidal fin set",
       is_simulation_option |-> FALSE, is_integer |-> FALSE],
      [name |-> "fin_count", component_name |-> "Trapezoidal fin set",
       is_simulation_option |-> FALSE, is_integer |-> TRUE]>>

\* (0.5, 2.5) and (1.5, 3.5)
DesignVectors == {<<5, 25>>, <<15, 35>>}

\* the values the loaded document holds: fin_height 1.0, fin_count 3
DocumentRocket == [n \in {"fin_height", "fin_count"} |->
                        IF n = "fin_height" THEN 10 ELSE 30]

SampleMatrices == UNION {[1..k -> DesignVectors] : k \in 0..MaxSamples}

Objective1(e) ==
    [name |-> "o1", flight_data_type |-> "TYPE_ALTITUDE",
     extraction |-> e, direction |-> "maximize"]

Objective2 ==
    [name |-> "o2", flight_data_type |-> "TYPE_VELOCITY_TOTAL",
     extraction |-> "min", direction |-> "minimize"]

ObjectiveLists ==
    {<<Objective1("max")>>, <<Objective1("final"), Objective2>>,
     <<Objective2, Objective1("unknown")>>}

\* the k-th constraint of a problem: the mean velocity against 18
DoeConstraint(k, op) ==
    [name |-> ConNames[k], flight_data_type |-> "TYPE_VELOCITY_TOTAL",
     extraction |-> "mean", operator |-> op, threshold |-> 18]

DoeConstraintLists ==
    {<<>>} \cup {<<DoeConstraint(1, op)>> : op \in OperatorValues}
    \cup {<<DoeConstraint(1, "GE"), DoeConstraint(2, "LE")>>,
          <<DoeConstraint(1, "LE"), DoeConstraint(2, "unknown")>>,
          <<DoeConstraint(1, "unknown"), DoeConstraint(2, "EQ")>>}

Problems ==
    [variables : {DesignVariables}, objectives : ObjectiveLists,
     constraints : DoeConstraintLists]

AltitudeSeries ==
    {<<>>, <<Num(12), Num(24)>>, <<Num(24), NaN>>, <<PosInf>>}

VelocitySeries ==
    {<<Num(12), Num(24)>>, <<Num(24)>>, <<NaN>>}

\* what one evaluation meets: the variable whose setter raises (0: none),
\* whether the simulation run raises, and the time series it produces
Envs ==
    {[applyFail |-> f, runFail |-> FALSE,
      data |-> [t \in {"TYPE_ALTITUDE", "TYPE_VELOCITY_TOTAL"} |-> <<>>]] :
        f \in 1..Len(DesignVariables)}
    \cup
    {[applyFail |-> 0, runFail |-> TRUE,
      data |-> [t \in {"TYPE_ALTITUDE", "TYPE_VELOCITY_TOTAL"} |-> <<>>]]}
    \cup
    {[applyFail |-> 0, runFail |-> FALSE,
      data |-> [t \in {"TYPE_ALTITUDE", "TYPE_VELOCITY_TOTAL"} |->
                    IF t = "TYPE_ALTITUDE" THEN alt ELSE vel]] :
        alt \in AltitudeSeries, vel \in VelocitySeries}

InitDoe ==
    /\ IdleCheck
    /\ IdleFit
    /\ IdleNsga
    /\ IdleKnee
    /\ IdleTop
    /\ IdleLhs
    /\ IdleLife
    /\ IdleFmt
    /\ problem \in Problems
    /\ samples \in SampleMatrices
    /\ simulator \in {NotEntered, Entered}
    /\ rocket = DocumentRocket
    /\ pc = "loop"
    /\ results = <<>>
    /\ calls = <<>>
    /\ lastEval = NoEval

\* x.tolist(): the same values as a list
tolist(x) == [k \in 1..Len(x) |-> x[k]]

\* one iteration of run_doe's loop: evaluate, the None test, the record and
\* its feasible flag, the append. An exception leaves run_doe.
RunDoeIteration ==
    /\ pc = "loop"
    /\ Len(results) < Len(samples)
    /\ \E env \in Envs :
        LET x == samples[Len(results) + 1]
            e == evaluate(simulator, problem, x, rocket, env)
            outcome == IF e.isNone THEN NanMapping(problem) ELSE e.outcome
            f == check_constraints(problem.constraints, outcome)
        IN /\ calls' = Append(calls, x)
           /\ rocket' = e.rocket
           /\ lastEval' = [called |-> TRUE, step |-> e.step, exc |-> e.exc,
                           isNone |-> e.isNone, outcome |-> e.outcome]
           /\ IF e.exc # "none" \/ f.exc # "none"
                THEN pc' = "raised" /\ UNCHANGED results
                ELSE /\ pc' = pc
                     /\ results' = Append(results,
                            [x |-> tolist(x), outcome |-> outcome,
                             feasible |-> f.ret])
    /\ UNCHANGED <<problem, samples, simulator, otherThanDoe>>

\* run_doe leaving its loop at the first failed evaluation
RunDoeReturnOnFailure ==
    /\ pc = "loop"
    /\ (Len(results) = Len(samples) \/ lastEval.step # "none")
    /\ pc' = "done"
    /\ UNCHANGED <<problem, samples, simulator, rocket, results, calls, lastEval,
                   otherThanDoe>>

\* the loop is over: the feasible rows are counted and results is returned
RunDoeReturn ==
    /\ pc = "loop"
    /\ Len(results) = Len(samples)
    /\ pc' = "done"
    /\ UNCHANGED <<problem, samples, simulator, rocket, results, calls, lastEval,
                   otherThanDoe>>

NextDoe == RunDoeIteration \/ RunDoeReturn

SpecDoe == InitDoe /\ [][NextDoe]_vars

\* the objective and constraint names of the problem
Names(prob) ==
    {prob.objectives[k].name : k \in 1..Len(prob.objectives)} \cup
    {prob.constraints[k].name : k \in 1..Len(prob.constraints)}

\* C1: run_doe calls simulator.evaluate once per sample, in sample order, and
\* returns one row per sample in that order: results[i]["x"] is samples[i],
\* and no row is dropped whether the evaluation succeeded or failed.
C1_OneRowPerSampleInOrder ==
    /\ Len(calls) <= Len(samples)
    /\ \A k \in 1..Len(calls) : calls[k] = samples[k]
    /\ Len(results) <= Len(calls)
    /\ \A k \in 1..Len(results) : results[k].x = samples[k]
    /\ pc # "raised" => Len(results) = Len(calls)
    /\ pc = "done" => (Len(calls) = Len(samples) /\ Len(results) = Len(samples))

\* C1's case: run_doe returned two rows for two different samples, the
\* first evaluated with success and the second one failed
C1_Witness ==
    /\ pc = "done"
    /\ Len(samples) = 2
    /\ samples[1] # samples[2]
    /\ Len(results) = 2
    /\ \E n \in DOMAIN results[1].outcome : ~isnan(results[1].outcome[n])
    /\ lastEval.step = "run_simulation"

\* C2 as stated: the row of a sample whose evaluation failed has NaN for
\* every objective and constraint name and feasible = False, for a problem
\* with any number of constraints (none included).
C2_Original ==
    (lastEval.called /\ lastEval.step # "none" /\ pc # "raised") =>
        LET row == results[Len(results)]
        IN /\ DOMAIN row.outcome = Names(problem)
           /\ \A n \in Names(problem) : isnan(row.outcome[n])
           /\ row.feasible = FALSE

-----------------------------------------------------------------------------
(* SurrogateModel.fit and predict on the rows run_doe produces             *)

MaxRows == 3

\* the problem the experiment was run for: two objectives, and the mean
\* velocity held at or below 18
DoeProblem ==
    [variables |-> DesignVariables,
     objectives |-> <<Objective1("max"), Objective2>>,
     constraints |-> <<DoeConstraint(1, "LE")>>]

\* the problems fit is called with: the experiment's, one with the first
\* objective alone, one with an objective the rows do not hold
FitProblems ==
    {DoeProblem,
     [DoeProblem EXCEPT !.objectives = <<Objective1("max")>>],
     [DoeProblem EXCEPT !.objectives =
        <<[name |-> "o3", flight_data_type |-> "TYPE_MACH_NUMBER",
           extraction |-> "max", direction |-> "minimize"]>>]}

\* the k-th sample of the experiment: (0.5 k, k + 0.5)
FitSample(k) == <<5 * k, 10 * k + 5>>

\* the rows run_doe produces for the k-th sample: one for each thing the
\* evaluation can meet
DoeRows(k) ==
    {LET e == evaluate(Entered, DoeProblem, FitSample(k), DocumentRocket, env)
     IN [x |-> tolist(FitSample(k)), outcome |-> e.outcome,
         feasible |-> check_constraints(DoeProblem.constraints, e.outcome).ret] :
        env \in Envs}

\* the result lists of n rows, the k-th row one of the k-th sample's
RECURSIVE RowLists(_)
RowLists(n) ==
    IF n = 0 THEN {<<>>}
    ELSE {Append(rs, r) : rs \in RowLists(n - 1), r \in DoeRows(n)}

DoeResultLists == UNION {RowLists(n) : n \in 0..MaxRows}

QueryPoints == {<<FitSample(1)>>, <<FitSample(1), FitSample(2)>>}

InitFit ==
    /\ IdleCheck
    /\ IdleDoe
    /\ IdleNsga
    /\ IdleKnee
    /\ IdleTop
    /\ IdleLhs
    /\ IdleLife
    /\ IdleFmt
    /\ doe_results \in DoeResultLists
    /\ surrogate = NewSurrogate
    /\ lastFit = NoFit
    /\ lastGood = NewSurrogate
    /\ predicted = NoPredict

Fit ==
    /\ \E prob \in FitProblems :
        LET r == fit(surrogate, doe_results, prob)
        IN /\ surrogate' = r.model
           /\ lastFit' = [called |-> TRUE, names |-> r.model._obj_names,
                          exc |-> r.exc, valid |-> r.valid,
                          modelsBefore |-> surrogate._models]
           /\ lastGood' = IF r.exc = "none"
                            THEN fit(NewSurrogate, doe_results, prob).model
                            ELSE lastGood
    /\ UNCHANGED <<doe_results, predicted, otherThanFit>>

Predict ==
    /\ \E Xq \in QueryPoints :
        predicted' = [called |-> TRUE, arrays |-> predict(surrogate, Xq)]
    /\ UNCHANGED <<doe_results, surrogate, lastFit, lastGood, otherThanFit>>

NextFit == Fit \/ Predict

SpecFit == InitFit /\ [][NextFit]_vars

\* the rows in which every one of the named objectives is present and finite
FiniteRows(rows, names) ==
    SelectSeq(rows, LAMBDA r :
        \A k \in 1..Len(names) :
            names[k] \in DOMAIN r.outcome /\ isfinite(r.outcome[names[k]]))

\* C6 as stated: fit retains exactly the rows in which every objective value
\* is finite (NaN, missing and infinite values excluded), in their order, and
\* raises, building no interpolant, if and only if fewer than 2 such rows
\* remain.
C6_Original ==
    lastFit.called =>
        /\ lastFit.valid = FiniteRows(doe_results, lastFit.names)
        /\ (lastFit.exc # "none") <=>
                (Len(FiniteRows(doe_results, lastFit.names)) < 2)
        /\ lastFit.exc # "none" => surrogate._models = lastFit.modelsBefore

\* C7 as stated: after any sequence of fit calls the model's whole state is
\* the state the most recent successful fit alone produces (a failed fit
\* changes nothing), and predict returns one array per objective of the last
\* successfully fitted problem and none for an earlier problem's objective.
C7_Original ==
    /\ surrogate = lastGood
    /\ predicted.called =>
            DOMAIN predicted.arrays \subseteq
                {surrogate._obj_names[k] : k \in 1..Len(surrogate._obj_names)}

\* C8 as stated: after fit no row that run_doe labeled feasible = False is
\* among the training inputs, and fit fails when fewer than 2 feasible rows
\* are available.
C8_Original ==
    lastFit.called =>
        /\ lastFit.exc = "none" =>
                \A k \in 1..Len(doe_results) :
                    ~doe_results[k].feasible =>
                        \A j \in 1..Len(surrogate._X.rows) :
                            surrogate._X.rows[j] # doe_results[k].x
        /\ Len(SelectSeq(doe_results, LAMBDA r : r.feasible)) < 2 =>
                lastFit.exc # "none"

-----------------------------------------------------------------------------
(* run_nsga2 over a fitted surrogate                                       *)

MaxPop == 3

\* the design points the engine can visit
DesignPoints == 1..MaxPop

PredValues == {-1, 2}

SearchObjective(n, dir) ==
    [name |-> n, flight_data_type |-> "TYPE_ALTITUDE", extraction |-> "max",
     direction |-> dir]

Direction == {"maximize", "minimize"}

SearchObjectiveLists ==
    {<<SearchObjective("o1", d1), SearchObjective("o2", d2)>> :
        d1 \in Direction, d2 \in Direction}
    \cup {<<SearchObjective("o1", "maximize"), SearchObjective("o2", "minimize"),
            SearchObjective("o3", "maximize")>>}

ObjectiveNames(objs) == {objs[j].name : j \in 1..Len(objs)}

\* the populations: the design points of a set, in increasing order
RECURSIVE PopulationOf(_, _)
PopulationOf(S, k) ==
    IF k > MaxPop THEN <<>>
    ELSE (IF k \in S THEN <<k>> ELSE <<>>) \o PopulationOf(S, k + 1)

InitNsga ==
    /\ IdleCheck
    /\ IdleDoe
    /\ IdleFit
    /\ IdleKnee
    /\ IdleTop
    /\ IdleLhs
    /\ IdleLife
    /\ IdleFmt
    /\ nsgaObjectives \in SearchObjectiveLists
    /\ surface \in [DesignPoints -> [ObjectiveNames(nsgaObjectives) -> PredValues]]
    /\ engineSaw = NotEvaluated
    /\ pareto_result = NoResult

RunNsga2 ==
    /\ ~pareto_result.returned
    /\ \E S \in SUBSET DesignPoints \ {{}} :
        LET X == PopulationOf(S, 1)
            r == run_nsga2(surface, nsgaObjectives, X)
        IN /\ engineSaw' = [X |-> X,
                            F |-> SurrogateProblem_evaluate(surface, nsgaObjectives, X)]
           /\ pareto_result' = [returned |-> TRUE, X |-> r.X, F |-> r.F,
                                F_minimized |-> r.F_minimized]
    /\ UNCHANGED <<nsgaObjectives, surface, otherThanNsga>>

NextNsga == RunNsga2

SpecNsga == InitNsga /\ [][NextNsga]_vars

\* row a is at least as good as row b on every objective, in the objective's
\* own direction, and better on one
DominatesNative(a, b, objs) ==
    /\ \A j \in 1..Len(objs) :
        IF objs[j].direction = "maximize" THEN a[j] >= b[j] ELSE a[j] <= b[j]
    /\ \E j \in 1..Len(objs) :
        IF objs[j].direction = "maximize" THEN a[j] > b[j] ELSE a[j] < b[j]

\* the surrogate's prediction at design point x, one value per objective
NativeRow(x) ==
    [j \in 1..Len(nsgaObjectives) |-> surface[x][nsgaObjectives[j].name]]

\* C9: in the dict run_nsga2 returns, F and F_minimized have the same shape,
\* F[i][j] = -F_minimized[i][j] for a maximize objective and
\* F[i][j] = F_minimized[i][j] for a minimize one, F_minimized being what the
\* engine saw in _evaluate; and for any two points A and B, A dominates B in
\* the native directions iff A's minimized row dominates B's under
\* minimization of every column.
C9_SignFlipRoundTrip ==
    pareto_result.returned =>
        LET F == pareto_result.F
            Fm == pareto_result.F_minimized
            X == pareto_result.X
        IN /\ Len(F) = Len(Fm)
           /\ Len(F) = Len(X)
           /\ \A i \in 1..Len(F) :
                /\ Len(F[i]) = Len(nsgaObjectives)
                /\ Len(Fm[i]) = Len(nsgaObjectives)
                /\ \A j \in 1..Len(nsgaObjectives) :
                    IF nsgaObjectives[j].direction = "maximize"
                        THEN F[i][j] = 0 - Fm[i][j]
                        ELSE F[i][j] = Fm[i][j]
                /\ \E k \in 1..Len(engineSaw.X) :
                    engineSaw.X[k] = X[i] /\ engineSaw.F[k] = Fm[i]
                /\ F[i] = NativeRow(X[i])
           /\ \A a \in 1..Len(F), b \in 1..Len(F) :
                DominatesNative(F[a], F[b], nsgaObjectives)
                    <=> DominatesMin(Fm[a], Fm[b])
           /\ \A a \in 1..Len(engineSaw.X), b \in 1..Len(engineSaw.X) :
                DominatesNative(NativeRow(engineSaw.X[a]), NativeRow(engineSaw.X[b]),
                                nsgaObjectives)
                    <=> DominatesMin(engineSaw.F[a], engineSaw.F[b])

\* C9's case: a search with a maximize and a minimize objective returned two
\* points, and one of the points the engine saw dominates another
C9_Witness ==
    /\ pareto_result.returned
    /\ Len(pareto_result.F) = 2
    /\ nsgaObjectives[1].direction = "maximize"
    /\ nsgaObjectives[2].direction = "minimize"
    /\ pareto_result.F[1][1] = 2
    /\ pareto_result.F_minimized[1][1] = -2
    /\ \E a \in 1..Len(engineSaw.X), b \in 1..Len(engineSaw.X) :
            DominatesMin(engineSaw.F[a], engineSaw.F[b])

-----------------------------------------------------------------------------
(* find_knee_point on fronts of up to MaxPoints points                     *)

MaxPoints == 4

\* the points with coordinates 0.0, 1.0 and 2.0
KneePoints == {<<a, b>> : a \in {0, 10, 20}, b \in {0, 10, 20}}

KneePoints3 == {<<0, 10, 20>>, <<10, 0, 10>>, <<20, 20, 0>>, <<10, 10, 10>>}

\* the front (0,10), (1,6), (2,3), (3,1), (4,0.2), (5,0), in tenths
ExampleFront ==
    <<<<0, 100>>, <<10, 60>>, <<20, 30>>, <<30, 10>>, <<40, 2>>, <<50, 0>>>>

KneeMatrices ==
    {ExampleFront}
    \cup UNION {[1..n -> KneePoints] : n \in 0..MaxPoints}
    \cup [1..3 -> KneePoints3]

InitKnee ==
    /\ IdleCheck
    /\ IdleDoe
    /\ IdleFit
    /\ IdleNsga
    /\ IdleTop
    /\ IdleLhs
    /\ IdleLife
    /\ IdleFmt
    /\ kneeF \in KneeMatrices
    /\ kneeRet = NoKnee

CallFindKneePoint ==
    /\ ~kneeRet.called
    /\ \E r \in find_knee_point(kneeF) : kneeRet' = [called |-> TRUE, ret |-> r]
    /\ UNCHANGED <<kneeF, otherThanKnee>>

NextKnee == CallFindKneePoint

SpecKnee == InitKnee /\ [][NextKnee]_vars

-----------------------------------------------------------------------------
(* Claim C10                                                               *)

TwoObjective(F) == Len(F) = 0 \/ Len(F[1]) = 2

\* the first row of F whose column j is minimal
FirstMinRow(F, j) ==
    CHOOSE k \in 1..Len(F) :
        /\ \A i \in 1..Len(F) : F[k][j] <= F[i][j]
        /\ \A i \in 1..(k - 1) : F[i][j] > F[k][j]

\* The perpendicular distance of row i from the line through A, the row of
\* minimal first-axis value, and B, the row of minimal second-axis value, in
\* normalized coordinates, times the length of AB and the two ranges (the
\* same positive factor for every row; 0 for every row when A = B).
KneeDistance(F, i) ==
    LET a == FirstMinRow(F, 1)
        b == FirstMinRow(F, 2)
        X(k) == F[k][1] - f_min(F, 1)
        Y(k) == F[k][2] - f_min(F, 2)
    IN Abs((X(b) - X(a)) * (Y(a) - Y(i)) - (Y(b) - Y(a)) * (X(a) - X(i)))

NormalizedInUnitInterval(F) ==
    \A i \in 1..Len(F) : \A j \in 1..Len(F[i]) :
        0 <= F_norm_num(F, i, j) /\ F_norm_num(F, i, j) <= f_range(F, j)

\* C10 as stated: on a 2-objective front find_knee_point returns 0 when the
\* front has at most 2 points; otherwise, each axis normalized to [0,1], it
\* returns the lowest index among the points of maximum perpendicular
\* distance from the line through the point of minimal first-axis value and
\* the point of minimal second-axis value; for the front (0,10), (1,6),
\* (2,3), (3,1), (4,0.2), (5,0) the index is neither the first nor the last.
C10_Original ==
    (kneeRet.called /\ TwoObjective(kneeF)) =>
        IF Len(kneeF) <= 2 THEN kneeRet.ret = 0
        ELSE /\ kneeRet.ret \in 0..(Len(kneeF) - 1)
             /\ NormalizedInUnitInterval(kneeF)
             /\ \A i \in 1..Len(kneeF) :
                    KneeDistance(kneeF, i) <= KneeDistance(kneeF, kneeRet.ret + 1)
             /\ \A i \in 1..kneeRet.ret :
                    KneeDistance(kneeF, i) < KneeDistance(kneeF, kneeRet.ret + 1)
             /\ (kneeF = ExampleFront => kneeRet.ret \notin {0, 5})

\* C10, amended: on a 2-objective front find_knee_point returns 0 when the
\* front has at most 2 points; otherwise, each axis normalized to [0,1], it
\* returns a point of maximum perpendicular distance from the line through
\* the point of minimal first-axis value and the point of minimal
\* second-axis value, the lowest index among them when floating point
\* computes the distances without rounding; for the front (0,10), (1,6),
\* (2,3), (3,1), (4,0.2), (5,0) the index is neither the first nor the last.
C10_KneeIsFarthest ==
    (kneeRet.called /\ TwoObjective(kneeF)) =>
        IF Len(kneeF) <= 2 THEN kneeRet.ret = 0
        ELSE /\ kneeRet.ret \in 0..(Len(kneeF) - 1)
             /\ NormalizedInUnitInterval(kneeF)
             /\ \A i \in 1..Len(kneeF) :
                    KneeDistance(kneeF, i) <= KneeDistance(kneeF, kneeRet.ret + 1)
             /\ FloatExact(kneeF) =>
                    \A i \in 1..kneeRet.ret :
                        KneeDistance(kneeF, i) < KneeDistance(kneeF, kneeRet.ret + 1)
             /\ (kneeF = ExampleFront => kneeRet.ret \notin {0, 5})

\* C10 witness: the call on the example front has returned index 3, a point
\* of maximum distance that is neither the first nor the last
C10_Witness ==
    /\ kneeRet.called
    /\ kneeF = ExampleFront
    /\ kneeRet.ret = 3
    /\ KneeDistance(kneeF, 3) = KneeDistance(kneeF, 4)

\* a front of more than 2 points, exactly computed, whose maximum distance
\* is reached by two rows: the lower index is returned
C10_TieWitness ==
    /\ kneeRet.called
    /\ Len(kneeF) > 2
    /\ TwoObjective(kneeF)
    /\ FloatExact(kneeF)
    /\ KneeDistance(kneeF, kneeRet.ret + 1) > 0
    /\ \E i \in (kneeRet.ret + 2)..Len(kneeF) :
           KneeDistance(kneeF, i) = KneeDistance(kneeF, kneeRet.ret + 1)

-----------------------------------------------------------------------------
(* select_top3 called on a Pareto result                                   *)

MaxFront == 4

TopObjectiveLists ==
    {<<SearchObjective("apogee", d1), SearchObjective("mass", d2)>> :
        d1 \in Direction, d2 \in Direction}
    \cup {<<SearchObjective("apogee", "maximize"), SearchObjective("mass", "minimize"),
            SearchObjective("speed", "minimize")>>}

\* the points with first coordinate 0.0, 1.0 or 4.0 and second 0.0, 3.0 or 4.0
TopPoints == {<<a, b>> : a \in {0, 10, 40}, b \in {0, 30, 40}}

TopPoints3 == {<<20, 20, 20>>, <<0, 0, 20>>, <<0, 20, 0>>, <<0, 10, 0>>}

\* the fronts, as matrices of native values
TopFronts(objs) ==
    IF Len(objs) = 2 THEN UNION {[1..n -> TopPoints] : n \in 0..MaxFront}
    ELSE UNION {[1..n -> TopPoints3] : n \in 0..MaxFront}

\* the design vector of the front's row i
TopDesign(i) == <<i + 100>>

\* the dict of a front with native matrix F under objectives objs
TopResultOf(F, objs) ==
    [returned |-> TRUE,
     X |-> [i \in 1..Len(F) |-> TopDesign(i)],
     F |-> F,
     F_minimized |-> F_original(F, objs)]

InitTop ==
    /\ IdleCheck
    /\ IdleDoe
    /\ IdleFit
    /\ IdleNsga
    /\ IdleKnee
    /\ IdleLhs
    /\ IdleLife
    /\ IdleFmt
    /\ topObjectives \in TopObjectiveLists
    /\ \E F \in TopFronts(topObjectives) : topResult = TopResultOf(F, topObjectives)
    /\ selected = NoSelection

CallSelectTop3 ==
    /\ ~selected.called
    /\ \E ret \in select_top3(topResult, topObjectives) :
        selected' = [called |-> TRUE, ret |-> ret]
    /\ UNCHANGED <<topResult, topObjectives, otherThanTop>>

NextTop == CallSelectTop3

SpecTop == InitTop /\ [][NextTop]_vars

-----------------------------------------------------------------------------
(* Claim C11                                                               *)

\* the rows of Fm are a Pareto front: no row dominates another
IsParetoFront(Fm) ==
    \A a \in 1..Len(Fm), b \in 1..Len(Fm) : ~DominatesMin(Fm[a], Fm[b])

\* C11 as stated: for every 2-objective Pareto result and every assignment of
\* maximize/minimize to its objectives, find_knee_point on the native matrix
\* F, which is what select_top3 passes and returns first, gives the same
\* index as find_knee_point on the all-minimized matrix F_minimized (an index
\* find_knee_point can return for F_minimized).
C11_Original ==
    (/\ selected.called
     /\ Len(topObjectives) = 2
     /\ Len(topResult.F) >= 1
     /\ IsParetoFront(topResult.F_minimized))
        => selected.ret[1].index \in find_knee_point(topResult.F_minimized)

-----------------------------------------------------------------------------
(* Claim C12                                                               *)

\* C12: for every front of n points and every problem, select_top3 returns
\* at most min(3, n) candidates whose indices are pairwise distinct and lie
\* in 0..n-1, each candidate's x and f being the front's row at its index;
\* the list is empty when n = 0, and when n >= 1 its first element is the
\* knee point labeled "Knee point", so a front of 1 point gives 1 candidate.
C12_AtMostThreeDistinctCandidates ==
    selected.called =>
        LET n == Len(topResult.F)
            ret == selected.ret
        IN /\ Len(ret) <= Min2(3, n)
           /\ \A a \in 1..Len(ret) :
                /\ ret[a].index \in 0..(n - 1)
                /\ ret[a].x = topResult.X[ret[a].index + 1]
                /\ ret[a].f = topResult.F[ret[a].index + 1]
                /\ \A b \in 1..Len(ret) : a # b => ret[a].index # ret[b].index
           /\ (n = 0 => ret = <<>>)
           /\ (n >= 1 => /\ Len(ret) >= 1
                         /\ ret[1].index \in find_knee_point(topResult.F)
                         /\ ret[1].label = "Knee point")
           /\ (n = 1 => Len(ret) = 1)

\* C12's case: a front of 4 points, one of them repeated, gave 3 candidates
C12_Witness ==
    /\ selected.called
    /\ Len(topResult.F) = 4
    /\ Len(selected.ret) = 3
    /\ \E a \in 1..4, b \in 1..4 : a # b /\ topResult.F[a] = topResult.F[b]

-----------------------------------------------------------------------------
(* Claim C13                                                               *)

\* the first index, from 0, of the best value of column k of the front
BestIndex(k) ==
    LET col == [i \in 1..Len(topResult.F) |-> topResult.F[i][k]]
    IN (CHOOSE b \in 1..Len(col) :
            /\ \A i \in 1..Len(col) :
                IF topObjectives[k].direction = "maximize"
                    THEN col[i] <= col[b] ELSE col[b] <= col[i]
            /\ \A i \in 1..(b - 1) : col[i] # col[b]) - 1

\* the indices the knee and the bests of the objectives before k make up
SeenBefore(k) == {selected.ret[1].index} \cup {BestIndex(l) : l \in 1..(k - 1)}

\* objective k's best is new and fewer than 3 candidates exist when it is
\* visited
BestIsAppended(k) ==
    BestIndex(k) \notin SeenBefore(k) /\ Cardinality(SeenBefore(k)) < 3

\* how many of the objectives 1..k have their best appended
AppendedUpTo(k) == Cardinality({l \in 1..k : BestIsAppended(l)})

C13_FullWitness ==
    /\ selected.called
    /\ Len(topObjectives) = 3
    /\ Len(topResult.F) >= 4
    /\ BestIndex(3) \notin SeenBefore(3)
    /\ Cardinality(SeenBefore(3)) = 3
    /\ Len(selected.ret) = 3

-----------------------------------------------------------------------------
(* Claim C14                                                               *)

\* the range of column j of the front, a constant column taken as 1
TopRange(j) ==
    LET col == {topResult.F[i][j] : i \in 1..Len(topResult.F)}
        hi == CHOOSE v \in col : \A w \in col : w <= v
        lo == CHOOSE v \in col : \A w \in col : v <= w
    IN IF hi = lo THEN 1 ELSE hi - lo

\* the squared difference of rows i and k on column j
SqDiff(i, k, j) ==
    (topResult.F[i][j] - topResult.F[k][j]) * (topResult.F[i][j] - topResult.F[k][j])

\* the squared normalized Euclidean distance of rows i and k, times the
\* squared ranges of all the columns
NormDistSq(i, k) ==
    IF Len(topObjectives) = 2
        THEN SqDiff(i, k, 1) * TopRange(2) * TopRange(2)
             + SqDiff(i, k, 2) * TopRange(1) * TopRange(1)
        ELSE SqDiff(i, k, 1) * TopRange(2) * TopRange(2) * TopRange(3) * TopRange(3)
             + SqDiff(i, k, 2) * TopRange(1) * TopRange(1) * TopRange(3) * TopRange(3)
             + SqDiff(i, k, 3) * TopRange(1) * TopRange(1) * TopRange(2) * TopRange(2)

\* the rows, counted from 1, of the candidates before the last of the list
RowsBeforeLast == {selected.ret[a].index + 1 : a \in 1..(Len(selected.ret) - 1)}

\* the least distance of row i to a row of S
MinDistTo(i, S) ==
    LET k == CHOOSE k \in S : \A l \in S : NormDistSq(i, k) <= NormDistSq(i, l)
    IN NormDistSq(i, k)

HasMostDiverse ==
    \E a \in 1..Len(selected.ret) : selected.ret[a].label = "Most diverse"

\* the last candidate is the row not selected before it that is farthest
\* from the rows selected before it
LastIsFarthest ==
    LET far == selected.ret[Len(selected.ret)].index + 1
        rest == (1..Len(topResult.F)) \ RowsBeforeLast
    IN /\ far \in rest
       /\ \A i \in rest : MinDistTo(i, RowsBeforeLast) <= MinDistTo(far, RowsBeforeLast)

\* of the rows as far as the last candidate, it is the one of lowest index
LastIsLowestOfFarthest ==
    LET far == selected.ret[Len(selected.ret)].index + 1
        rest == (1..Len(topResult.F)) \ RowsBeforeLast
    IN \A i \in rest :
        i < far => MinDistTo(i, RowsBeforeLast) < MinDistTo(far, RowsBeforeLast)

\* C14 as stated: select_top3 appends a candidate labeled "Most diverse" only
\* when, after the knee and per-objective steps, fewer than 3 candidates are
\* selected and the front has more than 3 points; when it does, it appends
\* exactly one, the not-yet-selected front point that maximizes the minimum
\* normalized Euclidean distance to the selected points (lowest index on
\* ties).
C14_Original ==
    (selected.called /\ HasMostDiverse) =>
        /\ 1 + AppendedUpTo(Len(topObjectives)) < 3
        /\ Len(topResult.F) > 3
        /\ Len(selected.ret) = 2 + AppendedUpTo(Len(topObjectives))
        /\ \A a \in 1..Len(selected.ret) :
            selected.ret[a].label = "Most diverse" <=> a = Len(selected.ret)
        /\ LastIsFarthest
        /\ LastIsLowestOfFarthest

-----------------------------------------------------------------------------
(* A problem is constructed and generate_lhs called on it                  *)

MaxLhs == 2

\* (lower_bound, upper_bound) pairs: (1.2, 2.7), (1.0, 3.0), (2.0, 2.0) and
\* (2.5, 0.5)
BoundPairs == {<<12, 27>>, <<10, 30>>, <<20, 20>>, <<25, 5>>}

LhsVariableLists ==
    {<<DesignVariable("fin_count", b[1], b[2], TRUE)>> : b \in BoundPairs}
    \cup {<<DesignVariable("fin_height", a[1], a[2], FALSE),
            DesignVariable("fin_count", b[1], b[2], TRUE)>> :
          a \in BoundPairs, b \in BoundPairs}

InitLhs ==
    /\ IdleCheck
    /\ IdleDoe
    /\ IdleFit
    /\ IdleNsga
    /\ IdleKnee
    /\ IdleTop
    /\ IdleLife
    /\ IdleFmt
    /\ lhsProblem = NoProblem
    /\ lhsRet = NoLhs

ConstructProblem ==
    /\ ~lhsProblem.built
    /\ \E variables \in LhsVariableLists :
        lhsProblem' = OptimizationProblem(variables)
    /\ UNCHANGED <<lhsRet, otherThanLhs>>

CallGenerateLhs ==
    /\ lhsProblem.built
    /\ ~lhsRet.called
    /\ \E n \in 1..MaxLhs :
        \E U \in LatinHypercube_random(n, n_var(lhsProblem)) :
            lhsRet' = generate_lhs(lhsProblem, n, U)
    /\ UNCHANGED <<lhsProblem, otherThanLhs>>

NextLhs == ConstructProblem \/ CallGenerateLhs

SpecLhs == InitLhs /\ [][NextLhs]_vars

-----------------------------------------------------------------------------
(* Claim C15                                                               *)

\* C15 as stated: for every problem and every requested sample count N,
\* generate_lhs returns exactly N rows of n_var values, every value within
\* [lower_bound, upper_bound] of its axis, also on integer-flagged axes after
\* rounding and also when an integer-flagged axis has non-integer bounds, and
\* every value on an integer-flagged axis is an integer.
C15_Original ==
    lhsRet.called =>
        /\ lhsRet.exc = "none"
        /\ Len(lhsRet.samples) = lhsRet.n_samples
        /\ \A i \in 1..Len(lhsRet.samples) :
            /\ Len(lhsRet.samples[i]) = n_var(lhsProblem)
            /\ \A j \in 1..n_var(lhsProblem) :
                /\ lhsProblem.variables[j].lower_bound <= lhsRet.samples[i][j]
                /\ lhsRet.samples[i][j] <= lhsProblem.variables[j].upper_bound
                /\ lhsProblem.variables[j].is_integer => lhsRet.samples[i][j] % 10 = 0

-----------------------------------------------------------------------------
(* Claim C16                                                               *)

\* C16 as stated: constructing a DesignVariable whose lower_bound is greater
\* than its upper_bound fails at construction, so no OptimizationProblem
\* holds such a variable and lower_bounds[i] <= upper_bounds[i] for every
\* axis i of every problem.
C16_Original ==
    lhsProblem.built =>
        \A i \in 1..n_var(lhsProblem) :
            lower_bounds(lhsProblem)[i] <= upper_bounds(lhsProblem)[i]

-----------------------------------------------------------------------------
(* Claim C17                                                               *)

HasUnknownExtraction ==
    \/ \E j \in 1..Len(problem.objectives) :
        problem.objectives[j].extraction \notin Extraction
    \/ \E j \in 1..Len(problem.constraints) :
        problem.constraints[j].extraction \notin Extraction

HasUnknownOperator ==
    \E j \in 1..Len(problem.constraints) :
        problem.constraints[j].operator \notin ConstraintOperator

\* C17 as stated: whenever an objective or constraint of the problem carries
\* an extraction mode outside {max, min, final, mean} or a constraint an
\* operator outside {>=, <=, ==}, evaluating a sample in run_doe aborts the
\* operation with an error, for every outcome value (NaN included) and every
\* time series (an empty one included): no row is recorded for the sample
\* and run_doe does not return.
C17_Original ==
    ((HasUnknownExtraction \/ HasUnknownOperator) /\ Len(calls) >= 1) =>
        /\ pc = "raised"
        /\ results = <<>>

-----------------------------------------------------------------------------
(* A program that uses one RocketSimulator in with-statements              *)

MaxInstances == 3

MaxDepth == 2

MaxEvals == 2

EnterFailures == {"none", "instance", "load_doc", "getSimulation"}

InitLife ==
    /\ IdleCheck
    /\ IdleDoe
    /\ IdleFit
    /\ IdleNsga
    /\ IdleKnee
    /\ IdleTop
    /\ IdleLhs
    /\ IdleFmt
    /\ lifeSim = RocketSimulator_init
    /\ instances = NoInstances
    /\ frames = <<>>
    /\ mode = "run"
    /\ evals = 0
    /\ lifeLast = "__init__"

\* "with simulator:" is reached: __enter__ runs. When it returns the body
\* starts; when it raises, the statement's __exit__ is not called and the
\* exception propagates from the statement.
WithEnter ==
    /\ mode = "run"
    /\ Len(frames) < MaxDepth
    /\ Len(instances) < MaxInstances
    /\ \E fail \in EnterFailures :
        LET id == Len(instances) + 1
            e == RocketSimulator_enter(lifeSim,
                    Append(instances, [state |-> "created", exits |-> 0]), id, fail)
        IN /\ lifeSim' = e.sim
           /\ instances' = e.inst
           /\ IF e.exc = "none"
                THEN frames' = Append(frames, id) /\ mode' = "run"
                ELSE frames' = frames /\ mode' = "unwind"
    /\ lifeLast' = "__enter__"
    /\ UNCHANGED <<evals, otherThanLife>>

\* simulator.evaluate(problem, x) in a body; it returns also when the
\* simulator holds no simulation (the AssertionError is caught in evaluate)
LifeEvaluate ==
    /\ mode = "run"
    /\ frames # <<>>
    /\ evals < MaxEvals
    /\ evals' = evals + 1
    /\ lifeLast' = "evaluate"
    /\ UNCHANGED <<lifeSim, instances, frames, mode, otherThanLife>>

\* the body of the innermost with-statement raises
BodyRaises ==
    /\ mode = "run"
    /\ frames # <<>>
    /\ mode' = "unwind"
    /\ lifeLast' = "raise"
    /\ UNCHANGED <<lifeSim, instances, frames, evals, otherThanLife>>

\* the body of the innermost with-statement ends: __exit__(None, None, None)
WithExit ==
    /\ mode = "run"
    /\ frames # <<>>
    /\ LET x == RocketSimulator_exit(lifeSim, instances)
       IN lifeSim' = x.sim /\ instances' = x.inst
    /\ frames' = SubSeq(frames, 1, Len(frames) - 1)
    /\ lifeLast' = "__exit__"
    /\ UNCHANGED <<mode, evals, otherThanLife>>

\* the exception leaves the innermost with-statement: __exit__(*exc) runs
\* and, returning None, lets the exception propagate
Unwind ==
    /\ mode = "unwind"
    /\ frames # <<>>
    /\ LET x == RocketSimulator_exit(lifeSim, instances)
       IN lifeSim' = x.sim /\ instances' = x.inst
    /\ frames' = SubSeq(frames, 1, Len(frames) - 1)
    /\ lifeLast' = "__exit__"
    /\ UNCHANGED <<mode, evals, otherThanLife>>

\* the exception has left every with-statement: the caller handles it
Caught ==
    /\ mode = "unwind"
    /\ frames = <<>>
    /\ mode' = "run"
    /\ lifeLast' = "except"
    /\ UNCHANGED <<lifeSim, instances, frames, evals, otherThanLife>>

NextLife ==
    WithEnter \/ LifeEvaluate \/ BodyRaises \/ WithExit \/ Unwind \/ Caught

SpecLife == InitLife /\ [][NextLife]_vars

\* a with-statement that was entered is left, and a raised exception
\* propagates
FairSpecLife ==
    SpecLife /\ WF_vars(WithExit) /\ WF_vars(Unwind) /\ WF_vars(Caught)

-----------------------------------------------------------------------------
(* Claim C18                                                               *)

Started(i) == Len(instances) >= i /\ instances[i].state = "started"

Released(i) == Len(instances) >= i /\ instances[i].exits >= 1

\* C18 as stated: every OpenRocket instance that __enter__ acquires is
\* released exactly once: in any sequence of __enter__, evaluate and __exit__
\* calls driven by with-statements (also when __enter__ fails after the
\* instance was started, when the body raises, and when the same simulator
\* is entered again) each started instance eventually has its __exit__
\* called, never twice, and after RocketSimulator.__exit__ the instance,
\* helper, document and simulation handles are all None.
C18_Original ==
    /\ \A i \in 1..MaxInstances : Started(i) ~> Released(i)
    /\ [](\A i \in 1..Len(instances) : instances[i].exits <= 1)
    /\ [](lifeLast = "__exit__" => lifeSim = RocketSimulator_init)

-----------------------------------------------------------------------------
(* One design vector printed by the three tables and applied to the rocket *)

\* fin_height 0.5 or 1.2; fin_count 2.0, 2.4, 2.5, 2.7, 3.5 or 12.0
FmtVectors == {<<h, c>> : h \in {5, 12}, c \in {20, 24, 25, 27, 35, 120}}

\* a record of run_doe for x
FmtRecord(x) ==
    [x |-> x, outcome |-> [n \in {"o1", "c1"} |-> IF n = "o1" THEN Num(24) ELSE NaN],
     feasible |-> FALSE]

\* a candidate of select_top3 for x
FmtCandidate(x) ==
    [index |-> 0, x |-> x, f |-> <<Num(24), Num(12)>>, label |-> "Knee point"]

InitFmt ==
    /\ IdleCheck
    /\ IdleDoe
    /\ IdleFit
    /\ IdleNsga
    /\ IdleKnee
    /\ IdleTop
    /\ IdleLhs
    /\ IdleLife
    /\ fmtX \in FmtVectors
    /\ fmtTables = NoTables
    /\ fmtRocket = NotWritten

CallFormatDoeTable ==
    /\ fmtTables.doe = <<>>
    /\ fmtTables' = [fmtTables EXCEPT !.doe = format_doe_table(DesignVariables, 1, fmtX)]
    /\ UNCHANGED <<fmtX, fmtRocket, otherThanFmt>>

CallFormatDoeResultsTable ==
    /\ fmtTables.doe_results = <<>>
    /\ fmtTables' = [fmtTables EXCEPT !.doe_results =
            format_doe_results_table(DesignVariables, <<"o1", "c1">>, 1, FmtRecord(fmtX))]
    /\ UNCHANGED <<fmtX, fmtRocket, otherThanFmt>>

CallFormatResultsTable ==
    /\ fmtTables.results = <<>>
    /\ fmtTables' = [fmtTables EXCEPT !.results =
            format_results_table(DesignVariables, 2, FmtCandidate(fmtX))]
    /\ UNCHANGED <<fmtX, fmtRocket, otherThanFmt>>

CallApplyDesign ==
    /\ ~fmtRocket.written
    /\ fmtRocket' = [written |-> TRUE,
                     values |-> apply_design(Entered, DesignVariables, fmtX,
                                             DocumentRocket, 0).rocket]
    /\ UNCHANGED <<fmtX, fmtTables, otherThanFmt>>

NextFmt ==
    \/ CallFormatDoeTable
    \/ CallFormatDoeResultsTable
    \/ CallFormatResultsTable
    \/ CallApplyDesign

SpecFmt == InitFmt /\ [][NextFmt]_vars

-----------------------------------------------------------------------------
(* Claim C19                                                               *)

\* the cell of variable j in a printed row (the first cell is the row's
\* number or label)
VariableCell(row, j) == row[j + 1]

\* C19 as stated: for an integer-flagged variable and any design value v,
\* the integer that format_results_table, format_doe_table and
\* format_doe_results_table print for v is the integer apply_design writes
\* to the rocket for v, namely v rounded to the nearest integer.
C19_Original ==
    \A j \in 1..Len(DesignVariables) :
        (DesignVariables[j].is_integer /\ fmtRocket.written) =>
            LET w == fmtRocket.values[DesignVariables[j].name]
            IN /\ w = 10 * round(fmtX[j])
               /\ fmtTables.doe # <<>> =>
                    VariableCell(fmtTables.doe, j) = str(w \div 10)
               /\ fmtTables.doe_results # <<>> =>
                    VariableCell(fmtTables.doe_results, j) = str(w \div 10)
               /\ fmtTables.results # <<>> =>
                    VariableCell(fmtTables.results, j) = str(w \div 10)

====
